---- MODULE Spec2Model ----
(***************************************************************************)
(* Role-gated project archive: the visibility resolver                     *)
(* (_get_role_based_archive_queryset), the aggregation endpoint            *)
(* (ProjectAggregationAPIView.get) and the list endpoint                   *)
(* (ProjectListAPIView.get_queryset) of shared/archive/views.py, over a    *)
(* bounded Project table.                                                  *)
(*                                                                         *)
(* Text that the code inspects character by character (project_type,       *)
(* filter_value, names, titles) is a sequence of one-character strings.    *)
(* Text that the code only compares with literals (status, role,           *)
(* category, sort_by, order) is a TLA+ string.                             *)
(***************************************************************************)
EXTENDS Integers, Sequences, FiniteSets, Bags, TLC

VARIABLES db, request, response

vars == <<db, request, response>>

-----------------------------------------------------------------------------
(* Bounds of the model.                                                    *)

\* Number of rows of the Project table.
MaxProjects == 2

\* Longest project_type value enumerated for the label round trip.
MaxTypeLen == 4

ProjectIds == 1..MaxProjects

-----------------------------------------------------------------------------
(* Python / SQL values.  A nullable column value or a label is tagged, so  *)
(* that None, a string and an integer are never compared untagged.         *)

None == [t |-> "null", v |-> <<>>]

StrV(s) == [t |-> "str", v |-> s]

IntV(n) == [t |-> "int", v |-> n]

\* A date column value, kept as its year and month.
DateV(y, m) == [t |-> "date", y |-> y, m |-> m]

\* Python truthiness of a label, negated: `not label` (views.py line 127).
IsFalsy(x) ==
    \/ x.t = "null"
    \/ x.t = "str" /\ x.v = <<>>
    \/ x.t = "int" /\ x.v = 0

\* The sentinel string 'N/A'.
NA == <<"N", "/", "A">>

-----------------------------------------------------------------------------
(* Characters and the str methods the views call.                          *)

UpperChars == {"A", "B", "C", "D", "H", "N", "R"}

LowerChars == {"a", "b", "c", "d", "h", "n", "r"}

\* str.upper() on one character.
CharUpper(c) ==
    CASE c = "a" -> "A" [] c = "b" -> "B" [] c = "c" -> "C" [] c = "d" -> "D"
      [] c = "h" -> "H" [] c = "n" -> "N" [] c = "r" -> "R" [] OTHER -> c

\* str.lower() on one character.
CharLower(c) ==
    CASE c = "A" -> "a" [] c = "B" -> "b" [] c = "C" -> "c" [] c = "D" -> "d"
      [] c = "H" -> "h" [] c = "N" -> "n" [] c = "R" -> "r" [] OTHER -> c

IsCased(c) == c \in UpperChars \cup LowerChars

\* s.replace(old, new) for single characters old and new.
Replace(s, old, new) == [i \in 1..Len(s) |-> IF s[i] = old THEN new ELSE s[i]]

\* s.upper()
Upper(s) == [i \in 1..Len(s) |-> CharUpper(s[i])]

\* s.lower()
Lower(s) == [i \in 1..Len(s) |-> CharLower(s[i])]

\* s.title(): a cased character that follows a cased character is lowered,
\* any other cased character is raised; uncased characters are kept.
Title(s) ==
    [i \in 1..Len(s) |->
        IF i > 1 /\ IsCased(s[i - 1]) THEN CharLower(s[i]) ELSE CharUpper(s[i])]

\* needle in haystack, for sequences of characters.
Contains(haystack, needle) ==
    \E i \in 0..(Len(haystack) - Len(needle)) :
        \A j \in 1..Len(needle) : haystack[i + j] = needle[j]

\* The __icontains lookup: case-insensitive containment.
IContains(haystack, needle) == Contains(Lower(haystack), Lower(needle))

Digits == {"0", "1", "2", "3", "4", "5", "6", "7", "8", "9"}

DigitValue(c) ==
    CASE c = "0" -> 0 [] c = "1" -> 1 [] c = "2" -> 2 [] c = "3" -> 3
      [] c = "4" -> 4 [] c = "5" -> 5 [] c = "6" -> 6 [] c = "7" -> 7
      [] c = "8" -> 8 [] c = "9" -> 9

DigitChar(n) ==
    CASE n = 0 -> "0" [] n = 1 -> "1" [] n = 2 -> "2" [] n = 3 -> "3"
      [] n = 4 -> "4" [] n = 5 -> "5" [] n = 6 -> "6" [] n = 7 -> "7"
      [] n = 8 -> "8" [] n = 9 -> "9"

\* Whether int(s) succeeds, for the plain decimal strings of the model.
IsDecimal(s) == Len(s) > 0 /\ \A i \in 1..Len(s) : s[i] \in Digits

RECURSIVE ToInt(_)
\* int(s) for a plain decimal string.
ToInt(s) ==
    IF Len(s) = 0 THEN 0
    ELSE 10 * ToInt(SubSeq(s, 1, Len(s) - 1)) + DigitValue(s[Len(s)])

RECURSIVE ToStr(_)
\* The decimal text of a non-negative integer, as a URL carries a year label.
ToStr(n) ==
    IF n < 10 THEN <<DigitChar(n)>>
    ELSE Append(ToStr(n \div 10), DigitChar(n % 10))

-----------------------------------------------------------------------------
(* The tables the views read.  College, User and Agenda rows are a fixed   *)
(* fixture; the Project table is drawn by Init.  Foreign key 0 is NULL.    *)

\* Names of the College rows (project_leader__college__name).
CollegeName(c) == IF c = 1 THEN <<"C", "a">> ELSE <<"C", "b">>

CollegeIds == {1, 2}

\* The User rows that lead projects: names, and college (0: no college).
Leaders ==
    [i \in {1, 2, 3} |->
        CASE i = 1 -> [given_name |-> <<"A", "n">>, last_name |-> <<"C">>, college |-> 1]
          [] i = 2 -> [given_name |-> <<"B">>, last_name |-> <<"D", "a">>, college |-> 2]
          [] i = 3 -> [given_name |-> <<"H">>, last_name |-> <<"N">>, college |-> 0]]

\* Names of the Agenda rows; name is a non-null text column, and may be blank.
AgendaName(a) == IF a = 1 THEN <<"H", "a">> ELSE <<>>

\* Project.status values: the two the views name, and one other.
Statuses == {"COMPLETED", "IN_PROGRESS", "NOT_STARTED"}

\* User.Role values the resolver names, the residual roles, and "None" for a
\* request whose user has no role attribute (getattr(user, 'role', None)).
FullAccessRoles == {"UESO", "DIRECTOR", "VP"}

CollegeRoles == {"FACULTY", "PROGRAM_HEAD", "COORDINATOR", "DEAN"}

OtherRoles == {"GUEST", "CLIENT", "IMPLEMENTER", "None"}

Roles == FullAccessRoles \cup CollegeRoles \cup OtherRoles

\* request.user: role and college (0: no college set).  A user without a role
\* attribute is the anonymous user, which has no college either.
Actors ==
    {a \in [role : Roles, college : {0} \cup CollegeIds] :
        a.role = "None" => a.college = 0}

\* Failures of the data store.  cls is the exception class, text its str().
NoFault == [cls |-> "none", text |-> ""]

\* The store is unreachable.
OperationalError == [cls |-> "OperationalError", text |-> "server closed the connection"]

\* The store's driver rejects a stored date while converting it.
StoreValueError == [cls |-> "ValueError", text |-> "year -1 is out of range"]

StoreErrors == {OperationalError, StoreValueError}

Faults == {NoFault} \cup StoreErrors

\* isinstance(e, ValueError)
IsValueError(e) == e.cls = "ValueError"

-----------------------------------------------------------------------------
(* Querysets.  An unordered queryset is the bag of the ids of its rows.    *)

\* Project.objects.all()
AllProjects == SetToBag(ProjectIds)

\* queryset.filter(...): the rows whose id is in matching (the ids of the
\* table that satisfy the lookup), each as often as before.
Filter(qs, matching) == [i \in DOMAIN qs \cap matching |-> qs[i]]

\* queryset.distinct()
Distinct(qs) == [i \in DOMAIN qs |-> 1]

\* The ids of the rows of a queryset.
Ids(qs) == DOMAIN qs

\* project_leader__college of a row: 0 when the join finds no college.
LeaderCollege(p) ==
    IF p.project_leader = 0 THEN 0 ELSE Leaders[p.project_leader].college

-----------------------------------------------------------------------------
(* _get_role_based_archive_queryset(request).  collegeFault is what the    *)
(* store raises when user.college is read (NoFault: the read succeeds).    *)

\* CollegeQuery with the `if user.college:` test dropped.
CollegeQuery_unguarded(d, user, i) ==
    /\ d[i].status = "IN_PROGRESS"
    /\ LeaderCollege(d[i]) = user.college

\* CollegeQuery without Q(status="IN_PROGRESS").
CollegeQuery_anyStatus(d, user, i) ==
    /\ user.college # 0
    /\ LeaderCollege(d[i]) # 0
    /\ LeaderCollege(d[i]) = user.college

\* Lines 48-51: college_query is the empty Q() unless user.college is set, and
\* then Q(status="IN_PROGRESS") & Q(project_leader__college=user.college).
\* The join matches only a row whose leader has a college.
CollegeQuery(d, user, i) ==
    /\ user.college # 0
    /\ d[i].status = "IN_PROGRESS"
    /\ LeaderCollege(d[i]) # 0
    /\ LeaderCollege(d[i]) = user.college

\* The resolver with VP left out of the first role list.
get_role_based_archive_queryset_noVP(d, user, collegeFault) ==
    IF user.role \in {"UESO", "DIRECTOR"}
    THEN [raised |-> FALSE, qs |-> AllProjects]
    ELSE IF user.role \in CollegeRoles
    THEN IF collegeFault # NoFault
         THEN [raised |-> TRUE, exc |-> collegeFault]
         ELSE [raised |-> FALSE,
               qs |-> Distinct(Filter(AllProjects,
                          {i \in ProjectIds : d[i].status = "COMPLETED" \/ CollegeQuery(d, user, i)}))]
    ELSE [raised |-> FALSE,
          qs |-> Filter(AllProjects, {i \in ProjectIds : d[i].status = "COMPLETED"})]

\* The resolver whose last branch also lets IN_PROGRESS rows through.
get_role_based_archive_queryset_openRest(d, user, collegeFault) ==
    IF user.role \in FullAccessRoles
    THEN [raised |-> FALSE, qs |-> AllProjects]
    ELSE IF user.role \in CollegeRoles
    THEN IF collegeFault # NoFault
         THEN [raised |-> TRUE, exc |-> collegeFault]
         ELSE [raised |-> FALSE,
               qs |-> Distinct(Filter(AllProjects,
                          {i \in ProjectIds : d[i].status = "COMPLETED" \/ CollegeQuery(d, user, i)}))]
    ELSE [raised |-> FALSE,
          qs |-> Filter(AllProjects, {i \in ProjectIds : d[i].status # "NOT_STARTED"})]

\* Lines 38-59.  The first role list returns every row and reads nothing else;
\* the second reads user.college and returns the distinct rows matching
\* Q(status="COMPLETED") | college_query; every other role, and a user without
\* a role attribute, gets the COMPLETED rows.
get_role_based_archive_queryset(d, user, collegeFault) ==
    IF user.role \in FullAccessRoles
    THEN [raised |-> FALSE, qs |-> AllProjects]
    ELSE IF user.role \in CollegeRoles
    THEN IF collegeFault # NoFault
         THEN [raised |-> TRUE, exc |-> collegeFault]
         ELSE [raised |-> FALSE,
               qs |-> Distinct(Filter(AllProjects,
                          {i \in ProjectIds : d[i].status = "COMPLETED" \/ CollegeQuery(d, user, i)}))]
    ELSE [raised |-> FALSE,
          qs |-> Filter(AllProjects, {i \in ProjectIds : d[i].status = "COMPLETED"})]

-----------------------------------------------------------------------------
(* The grouping key of a row, and the label and filter conversions.        *)

\* field_map (lines 98-104), as the categories it has keys for.
Categories == {"start_year", "estimated_end_date", "agenda", "project_type", "college"}

\* ExtractYear of a date column, and the __year transform of the list
\* lookups: the calendar year, NULL for a NULL date.
ExtractYear(date) == IF date.t = "null" THEN None ELSE IntV(date.y)

\* The value of field_map[category] on a row, NULL when a join finds nothing:
\* start_year and end_year are the annotations of lines 112-115.
GroupKey(p, category) ==
    CASE category = "start_year" -> ExtractYear(p.start_date)
      [] category = "estimated_end_date" -> ExtractYear(p.estimated_end_date)
      [] category = "agenda" ->
            IF p.agenda = 0 THEN None ELSE StrV(AgendaName(p.agenda))
      [] category = "project_type" -> p.project_type
      [] category = "college" ->
            IF LeaderCollege(p) = 0 THEN None ELSE StrV(CollegeName(LeaderCollege(p)))

\* Lines 126-134: an empty label becomes 'N/A'; a project_type label other
\* than 'N/A' becomes label.replace('_', ' ').title().
FormatLabel(category, label) ==
    IF IsFalsy(label) THEN StrV(NA)
    ELSE IF category = "project_type" /\ label # StrV(NA)
    THEN StrV(Title(Replace(label.v, "_", " ")))
    ELSE label

\* ParseProjectType without .upper().
ParseProjectType_noUpper(filter_value) == Replace(filter_value, " ", "_")

\* Line 190: filter_value.replace(' ', '_').upper()
ParseProjectType(filter_value) == Upper(Replace(filter_value, " ", "_"))

-----------------------------------------------------------------------------
(* Ordering of column values, for order_by.                                *)

\* The characters of the model in code point order.
Alphabet ==
    <<" ", "/", "0", "1", "2", "3", "4", "5", "6", "7", "8", "9",
      "A", "B", "C", "D", "H", "N", "R", "_", "a", "b", "c", "d", "h", "n", "r">>

CharRank(c) == CHOOSE k \in 1..Len(Alphabet) : Alphabet[k] = c

RECURSIVE StrLess(_, _)
\* a < b for text, character by character.
StrLess(a, b) ==
    IF Len(b) = 0 THEN FALSE
    ELSE IF Len(a) = 0 THEN TRUE
    ELSE IF a[1] = b[1] THEN StrLess(Tail(a), Tail(b))
    ELSE CharRank(a[1]) < CharRank(b[1])

\* x sorts before y in ascending order.  Where NULL sorts is the store's
\* choice: nullsLow says it sorts before every value.
KeyLess(x, y, nullsLow) ==
    IF x.t = "null" THEN y.t # "null" /\ nullsLow
    ELSE IF y.t = "null" THEN ~nullsLow
    ELSE IF x.t = "int" THEN x.v < y.v
    ELSE IF x.t = "date" THEN x.y < y.y \/ (x.y = y.y /\ x.m < y.m)
    ELSE StrLess(x.v, y.v)

-----------------------------------------------------------------------------
(* ProjectAggregationAPIView.get(request, category).  queryFault is what   *)
(* the store raises when the grouped query runs (NoFault: it succeeds).    *)

ServerErrorText == "A server error occurred during aggregation."

\* Line 107: raise ValueError("Invalid category specified.")
InvalidCategory == [cls |-> "ValueError", text |-> "Invalid category specified."]

\* The except clauses answering 200 with the error for a ValueError.
HandleException_ok(e) ==
    IF IsValueError(e)
    THEN [status |-> 200, error |-> e.text]
    ELSE [status |-> 500, error |-> ServerErrorText]

\* Lines 139-143: a ValueError is answered 400 with str(e), any other
\* exception 500 with the fixed message.
HandleException(e) ==
    IF IsValueError(e)
    THEN [status |-> 400, error |-> e.text]
    ELSE [status |-> 500, error |-> ServerErrorText]

\* values(group_by_field): the distinct keys of the rows of the queryset.
GroupKeys(d, qs, category) == {GroupKey(d[i], category) : i \in Ids(qs)}

\* annotate(count=Count('id')) for one key.
GroupCount(d, qs, category, key) ==
    BagCardinality(Filter(qs, {i \in ProjectIds : GroupKey(d[i], category) = key}))

\* order_by('-' + group_by_field): the keys from the greatest down.
OrderKeysDesc(keys, nullsLow) ==
    [pos \in 1..Cardinality(keys) |->
        CHOOSE k \in keys :
            Cardinality({k2 \in keys : KeyLess(k, k2, nullsLow)}) = pos - 1]

\* Lines 117-136: one {label, count} per group, in key order.
FormattedResults(d, qs, category, nullsLow) ==
    LET keys == OrderKeysDesc(GroupKeys(d, qs, category), nullsLow)
    IN  [pos \in 1..Len(keys) |->
            [label |-> FormatLabel(category, keys[pos]),
             count |-> GroupCount(d, qs, category, keys[pos])]]

\* Lines 94-143.
AggregationGet(d, user, category, collegeFault, queryFault, nullsLow) ==
    LET base == get_role_based_archive_queryset(d, user, collegeFault)
    IN  IF base.raised THEN HandleException(base.exc)
        ELSE IF category \notin Categories THEN HandleException(InvalidCategory)
        ELSE IF queryFault # NoFault THEN HandleException(queryFault)
        ELSE [status |-> 200, body |-> FormattedResults(d, base.qs, category, nullsLow)]

-----------------------------------------------------------------------------
(* ProjectListAPIView.get_queryset().  category is "" when the URL has     *)
(* none; filter_value and search are None when absent.                     *)

\* The N/A branch with the agenda lookup comparing the name with 'N/A'.
NullFilter_agendaByName(d, category) ==
    CASE category = "agenda" ->
            {i \in ProjectIds : d[i].agenda # 0 /\ AgendaName(d[i].agenda) = NA}
      [] category = "college" -> {i \in ProjectIds : LeaderCollege(d[i]) = 0}
      [] category = "start_year" ->
            {i \in ProjectIds : ExtractYear(d[i].start_date) = None}
      [] category = "estimated_end_date" ->
            {i \in ProjectIds : ExtractYear(d[i].estimated_end_date) = None}
      [] category = "project_type" -> {i \in ProjectIds : d[i].project_type = None}
      [] OTHER -> ProjectIds

\* Lines 167-178: the ids matched by the __isnull=True lookup of the
\* category; every id when the category has no branch.
NullFilter(d, category) ==
    CASE category = "agenda" -> {i \in ProjectIds : d[i].agenda = 0}
      [] category = "college" -> {i \in ProjectIds : LeaderCollege(d[i]) = 0}
      [] category = "start_year" ->
            {i \in ProjectIds : ExtractYear(d[i].start_date) = None}
      [] category = "estimated_end_date" ->
            {i \in ProjectIds : ExtractYear(d[i].estimated_end_date) = None}
      [] category = "project_type" -> {i \in ProjectIds : d[i].project_type = None}
      [] OTHER -> ProjectIds

\* Lines 181-194: the ids matched by the equality lookup of the category on
\* value (text); every id when the category has no branch.  A year lookup
\* compares the year with int(value).
EqualFilter(d, category, value) ==
    CASE category = "start_year" ->
            {i \in ProjectIds : ExtractYear(d[i].start_date) = IntV(ToInt(value))}
      [] category = "estimated_end_date" ->
            {i \in ProjectIds : ExtractYear(d[i].estimated_end_date) = IntV(ToInt(value))}
      [] category = "agenda" ->
            {i \in ProjectIds : d[i].agenda # 0 /\ AgendaName(d[i].agenda) = value}
      [] category = "project_type" ->
            {i \in ProjectIds : d[i].project_type = StrV(ParseProjectType(value))}
      [] category = "college" ->
            {i \in ProjectIds :
                LeaderCollege(d[i]) # 0 /\ CollegeName(LeaderCollege(d[i])) = value}
      [] OTHER -> ProjectIds

\* Whether the year lookup of lines 182 and 184 rejects the value: the
\* integer field raises ValueError for text that int() does not accept.
YearLookupFails(category, value) ==
    category \in {"start_year", "estimated_end_date"} /\ ~IsDecimal(value)

\* Lines 166-194 as the ids the URL's category and filter_value select.
CategoryFilter(d, category, filter_value) ==
    IF category = "" \/ IsFalsy(filter_value) THEN ProjectIds
    ELSE IF filter_value.v = NA THEN NullFilter(d, category)
    ELSE EqualFilter(d, category, filter_value.v)

\* Lines 197-203: the ids whose title, leader's given or last name, or
\* primary location contains the search text, case-insensitively.
SearchFilter(d, search) ==
    IF IsFalsy(search) THEN ProjectIds
    ELSE {i \in ProjectIds :
            \/ IContains(d[i].title, search.v)
            \/ /\ d[i].project_leader # 0
               /\ \/ IContains(Leaders[d[i].project_leader].given_name, search.v)
                  \/ IContains(Leaders[d[i].project_leader].last_name, search.v)
            \/ IContains(d[i].primary_location, search.v)}

\* Lines 206-211: sort_field_map.get(sort_by, 'title')
SortField(sort_by) ==
    CASE sort_by = "title" -> "title"
      [] sort_by = "start_date" -> "start_date"
      [] sort_by = "end_date" -> "estimated_end_date"
      [] OTHER -> "title"

\* The value of the sort field on a row.
SortKey(p, field) ==
    CASE field = "title" -> StrV(p.title)
      [] field = "start_date" -> p.start_date
      [] field = "estimated_end_date" -> p.estimated_end_date

\* Lines 213-218: order_by(sort_field) and distinct().  The orders the store
\* may return the rows in: each id once, sorted by the field, ascending
\* unless order is 'desc'; rows with equal keys come in any order, and NULL
\* keys come first or last, as the store sorts them.
OrderedDistinct(d, qs, sort_by, order) ==
    LET ids == Ids(Distinct(qs))
        n == Cardinality(ids)
        key(i) == SortKey(d[i], SortField(sort_by))
        before(i, j, nullsLow) ==
            IF order = "desc" THEN KeyLess(key(j), key(i), nullsLow)
            ELSE KeyLess(key(i), key(j), nullsLow)
    IN  {rows \in [1..n -> ids] :
            /\ \A a, b \in 1..n : a # b => rows[a] # rows[b]
            /\ \E nullsLow \in BOOLEAN :
                  \A a, b \in 1..n : a < b => ~before(rows[b], rows[a], nullsLow)}

\* get_queryset whose category filter starts from Project.objects again.
get_queryset_fromAll(d, user, category, filter_value, search, sort_by, order, collegeFault) ==
    LET base == get_role_based_archive_queryset(d, user, collegeFault)
    IN  IF base.raised THEN [raised |-> TRUE, exc |-> base.exc]
        ELSE IF /\ category # ""
                /\ ~IsFalsy(filter_value)
                /\ filter_value.v # NA
                /\ YearLookupFails(category, filter_value.v)
        THEN [raised |-> TRUE,
              exc |-> [cls |-> "ValueError", text |-> "Field expected a number"]]
        ELSE LET source == IF category # "" /\ ~IsFalsy(filter_value)
                           THEN AllProjects ELSE base.qs
                 filtered == Filter(source, CategoryFilter(d, category, filter_value))
                 searched == Filter(filtered, SearchFilter(d, search))
             IN  [raised |-> FALSE,
                  rows |-> OrderedDistinct(d, searched, sort_by, order)]

\* Lines 152-218.  The result is the set of row orders the store may answer
\* with, or the exception that leaves the view.
get_queryset(d, user, category, filter_value, search, sort_by, order, collegeFault) ==
    LET base == get_role_based_archive_queryset(d, user, collegeFault)
    IN  IF base.raised THEN [raised |-> TRUE, exc |-> base.exc]
        ELSE IF /\ category # ""
                /\ ~IsFalsy(filter_value)
                /\ filter_value.v # NA
                /\ YearLookupFails(category, filter_value.v)
        THEN [raised |-> TRUE,
              exc |-> [cls |-> "ValueError", text |-> "Field expected a number"]]
        ELSE LET filtered == Filter(base.qs, CategoryFilter(d, category, filter_value))
                 searched == Filter(filtered, SearchFilter(d, search))
             IN  [raised |-> FALSE,
                  rows |-> OrderedDistinct(d, searched, sort_by, order)]

-----------------------------------------------------------------------------
(* The Project table.                                                      *)

\* The text columns of a row when a specification does not vary them.
DefaultTitle == <<"A", "n">>

DefaultLocation == <<"C", "a">>

\* Rows that vary in what the resolver reads: status and project_leader.
ResolverRows ==
    [status : Statuses, project_leader : {0, 1, 2, 3}, agenda : {0},
     project_type : {None}, start_date : {None}, estimated_end_date : {None},
     title : {DefaultTitle}, primary_location : {DefaultLocation}]

\* No request has been handled yet.
NoRequest == [op |-> "none"]

NoResponse == [op |-> "none"]

-----------------------------------------------------------------------------
(* The resolver on its own.                                                *)

InitResolver ==
    /\ db \in [ProjectIds -> ResolverRows]
    /\ request = NoRequest
    /\ response = NoResponse

\* One call of _get_role_based_archive_queryset for request.user = user.
Resolve(user, collegeFault) ==
    /\ request = NoRequest
    /\ request' = [op |-> "resolve", user |-> user, collegeFault |-> collegeFault]
    /\ response' = get_role_based_archive_queryset(db, user, collegeFault)
    /\ UNCHANGED db

\* The request is over; the next one starts from nothing (no state is kept
\* between requests).
Finish ==
    /\ request # NoRequest
    /\ request' = NoRequest
    /\ response' = NoResponse
    /\ UNCHANGED db

NextResolver ==
    \/ \E user \in Actors, f \in Faults : Resolve(user, f)
    \/ Finish

SpecResolver == InitResolver /\ [][NextResolver]_vars

\* The resolver has returned a queryset for the request at hand.
Resolved == request.op = "resolve" /\ ~response.raised

\* What the role policy lets a college-role user see of row i.
CollegeVisible(user, i) ==
    \/ db[i].status = "COMPLETED"
    \/ /\ db[i].status = "IN_PROGRESS"
       /\ db[i].project_leader # 0
       /\ Leaders[db[i].project_leader].college = user.college

\* C1: for a UESO, DIRECTOR or VP actor, whatever the actor's college, the
\* resolver returns a queryset, and it holds every project of the table,
\* whatever its status and its leader's college.
C1_FullAccessSeesAll ==
    (request.op = "resolve" /\ request.user.role \in {"UESO", "DIRECTOR", "VP"})
        => /\ ~response.raised
           /\ \A i \in ProjectIds : BagIn(i, response.qs)

\* A VP with a college set is shown a row that is neither COMPLETED nor led
\* from that college, beside another row.
C1_Witness ==
    /\ Resolved
    /\ request.user.role = "VP"
    /\ request.user.college = 1
    /\ \E i \in ProjectIds :
          /\ db[i].status = "NOT_STARTED"
          /\ db[i].project_leader = 2
          /\ BagIn(i, response.qs)
    /\ \E i \in ProjectIds : db[i].status = "IN_PROGRESS" /\ db[i].project_leader = 0

\* C2: for a FACULTY, PROGRAM_HEAD, COORDINATOR or DEAN actor with college C
\* set, the returned queryset holds a project exactly when it is COMPLETED,
\* or IN_PROGRESS with a leader of college C, and holds it once.
C2_CollegeRoleSeesCompletedPlusOwn ==
    (/\ Resolved
     /\ request.user.role \in {"FACULTY", "PROGRAM_HEAD", "COORDINATOR", "DEAN"}
     /\ request.user.college # 0)
        => \A i \in ProjectIds :
              CopiesIn(i, response.qs) = IF CollegeVisible(request.user, i) THEN 1 ELSE 0

\* A DEAN of college 1 gets an IN_PROGRESS row of college 1 and is refused an
\* IN_PROGRESS row whose leader has another college or none.
C2_Witness ==
    /\ Resolved
    /\ request.user = [role |-> "DEAN", college |-> 1]
    /\ \E i \in ProjectIds :
          /\ db[i].status = "IN_PROGRESS"
          /\ db[i].project_leader = 1
          /\ BagIn(i, response.qs)
    /\ \E i \in ProjectIds :
          /\ db[i].status = "IN_PROGRESS"
          /\ db[i].project_leader \in {2, 3}
          /\ ~BagIn(i, response.qs)

\* C3: for a FACULTY, PROGRAM_HEAD, COORDINATOR or DEAN actor with no college
\* set, the returned queryset holds exactly the COMPLETED projects.
C3_NoCollegeSeesCompletedOnly ==
    (/\ Resolved
     /\ request.user.role \in {"FACULTY", "PROGRAM_HEAD", "COORDINATOR", "DEAN"}
     /\ request.user.college = 0)
        => \A i \in ProjectIds :
              CopiesIn(i, response.qs) = IF db[i].status = "COMPLETED" THEN 1 ELSE 0

\* A FACULTY user without a college is refused an IN_PROGRESS row whose
\* leader has no college either, and gets a COMPLETED row.
C3_Witness ==
    /\ Resolved
    /\ request.user = [role |-> "FACULTY", college |-> 0]
    /\ \E i \in ProjectIds :
          /\ db[i].status = "IN_PROGRESS"
          /\ db[i].project_leader \in {0, 3}
          /\ ~BagIn(i, response.qs)
    /\ \E i \in ProjectIds : db[i].status = "COMPLETED" /\ BagIn(i, response.qs)

\* C4: for an actor of any other role, or without a role attribute, the
\* resolver returns a queryset, and it holds exactly the COMPLETED projects,
\* whatever the actor's college.
C4_OtherRolesSeeCompletedOnly ==
    (/\ request.op = "resolve"
     /\ request.user.role \notin
          {"UESO", "DIRECTOR", "VP", "FACULTY", "PROGRAM_HEAD", "COORDINATOR", "DEAN"})
        => /\ ~response.raised
           /\ \A i \in ProjectIds :
                 CopiesIn(i, response.qs) = IF db[i].status = "COMPLETED" THEN 1 ELSE 0

\* A CLIENT of college 1 is refused an IN_PROGRESS row of college 1 and
\* gets a COMPLETED row.
C4_Witness ==
    /\ Resolved
    /\ request.user = [role |-> "CLIENT", college |-> 1]
    /\ \E i \in ProjectIds :
          /\ db[i].status = "IN_PROGRESS"
          /\ db[i].project_leader = 1
          /\ ~BagIn(i, response.qs)
    /\ \E i \in ProjectIds : db[i].status = "COMPLETED" /\ BagIn(i, response.qs)

-----------------------------------------------------------------------------
(* The project_type label round trip: the label the aggregation endpoint   *)
(* shows for a stored value, and the value the list endpoint filters by    *)
(* when it is handed that label.                                           *)

UpperSnakeChars == {"R", "B", "_", "1"}

RECURSIVE SeqsUpTo(_, _)
\* The sequences over chars of length 0..n.
SeqsUpTo(chars, n) ==
    IF n = 0 THEN {<<>>}
    ELSE LET shorter == SeqsUpTo(chars, n - 1)
         IN  shorter \cup {Append(s, c) : s \in shorter, c \in chars}

\* The enumerated project_type values: non-empty UPPER_SNAKE text.
ValidProjectTypes == SeqsUpTo(UpperSnakeChars, MaxTypeLen) \ {<<>>}

\* The table when a specification does not read it.
DefaultRow ==
    [status |-> "COMPLETED", project_leader |-> 0, agenda |-> 0,
     project_type |-> None, start_date |-> None, estimated_end_date |-> None,
     title |-> DefaultTitle, primary_location |-> DefaultLocation]

InitRoundTrip ==
    /\ db = [i \in ProjectIds |-> DefaultRow]
    /\ request = NoRequest
    /\ response = NoResponse

\* The aggregation endpoint formats the stored value v of a project_type group.
FormatType(v) ==
    /\ request = NoRequest
    /\ request' = [op |-> "format", project_type |-> v]
    /\ response' = FormatLabel("project_type", StrV(v))
    /\ UNCHANGED db

\* The list endpoint is handed that label as filter_value; lines 166-191 take
\* the N/A branch for 'N/A' and otherwise parse it.
ParseLabel ==
    /\ request.op = "format"
    /\ request' = [op |-> "parse", project_type |-> request.project_type,
                   filter_value |-> response.v]
    /\ response' = IF response.v = NA THEN None ELSE StrV(ParseProjectType(response.v))
    /\ UNCHANGED db

NextRoundTrip ==
    \/ \E v \in ValidProjectTypes : FormatType(v)
    \/ ParseLabel
    \/ Finish

SpecRoundTrip == InitRoundTrip /\ [][NextRoundTrip]_vars

\* C5: for every valid enumerated project_type value v, parsing the label
\* formatted from v (spaces to underscores, upper-cased) for the list filter
\* yields v again.
C5_ProjectTypeRoundTrip ==
    request.op = "parse" => response = StrV(request.project_type)

\* RB_B is shown as "Rb B" and parsed back.
C5_Witness ==
    /\ request.op = "parse"
    /\ request.project_type = <<"R", "B", "_", "B">>
    /\ request.filter_value = <<"R", "b", " ", "B">>
    /\ response = StrV(<<"R", "B", "_", "B">>)

-----------------------------------------------------------------------------
(* The two endpoints over a table whose rows vary in every column.         *)

\* What the resolver reads of a row: status and project_leader.
VisibilityProfiles ==
    << [status |-> "COMPLETED", project_leader |-> 1],
       [status |-> "IN_PROGRESS", project_leader |-> 2],
       [status |-> "NOT_STARTED", project_leader |-> 3],
       [status |-> "COMPLETED", project_leader |-> 0] >>

\* The other columns of a row: all set, all NULL, and blank text with dates
\* that share a year with the first.
ContentProfiles ==
    << [agenda |-> 1, project_type |-> StrV(<<"R", "_", "B">>),
        start_date |-> DateV(2020, 3), estimated_end_date |-> DateV(2021, 6),
        title |-> <<"A", "n">>, primary_location |-> <<"C", "a">>],
       [agenda |-> 0, project_type |-> None,
        start_date |-> None, estimated_end_date |-> None,
        title |-> <<"B">>, primary_location |-> <<"D", "n">>],
       [agenda |-> 2, project_type |-> StrV(<<>>),
        start_date |-> DateV(2020, 9), estimated_end_date |-> DateV(2020, 12),
        title |-> <<"a", "b">>, primary_location |-> <<"C", "a">>] >>

\* The row with visibility profile v and content profile c.
ArchiveRow(v, c) ==
    [status |-> VisibilityProfiles[v].status,
     project_leader |-> VisibilityProfiles[v].project_leader,
     agenda |-> ContentProfiles[c].agenda,
     project_type |-> ContentProfiles[c].project_type,
     start_date |-> ContentProfiles[c].start_date,
     estimated_end_date |-> ContentProfiles[c].estimated_end_date,
     title |-> ContentProfiles[c].title,
     primary_location |-> ContentProfiles[c].primary_location]

ProfileIndexes == (1..Len(VisibilityProfiles)) \X (1..Len(ContentProfiles))

\* (v, c) comes no later than (w, e) in the list of profiles.
ProfileLeq(x, y) == x[1] < y[1] \/ (x[1] = y[1] /\ x[2] <= y[2])

\* The tables of the endpoints.  The views read no id, so a table is told
\* from another by its rows alone, and the rows are listed in profile order.
ArchiveTables ==
    { [i \in ProjectIds |-> ArchiveRow(ks[i][1], ks[i][2])] :
        ks \in {f \in [ProjectIds -> ProfileIndexes] :
                  \A i, j \in ProjectIds : i < j => ProfileLeq(f[i], f[j])} }

\* The users that call the endpoints: one role of each branch of the
\* resolver, with and without a college.
EndpointActors ==
    { [role |-> "VP", college |-> 0],
      [role |-> "DEAN", college |-> 0],
      [role |-> "DEAN", college |-> 1],
      [role |-> "DEAN", college |-> 2],
      [role |-> "GUEST", college |-> 1],
      [role |-> "None", college |-> 0] }

\* The store can fail on user.college only for a user whose college is read.
CollegeFaults(user) == IF user.role \in CollegeRoles THEN Faults ELSE {NoFault}

\* The list view has no except clause: what it does with a failure of the
\* store does not depend on the exception's class.
ListCollegeFaults(user) == CollegeFaults(user) \cap {NoFault, OperationalError}

\* URL categories: the five of field_map, an unknown one, and none.
UrlCategories == Categories \cup {"bogus"}

FilterValues ==
    { None, StrV(NA), StrV(<<"H", "a">>), StrV(<<"2", "0", "2", "0">>),
      StrV(<<"R", " ", "B">>), StrV(<<"C", "a">>) }

SearchValues == { None, StrV(<<"N">>) }

SortByValues == {"title", "start_date", "end_date", "bogus"}

OrderValues == {"asc", "desc"}

InitArchive ==
    /\ db \in ArchiveTables
    /\ request = NoRequest
    /\ response = NoResponse

\* GET of the aggregation endpoint.
Aggregate(user, category, collegeFault, queryFault, nullsLow) ==
    /\ request = NoRequest
    /\ request' = [op |-> "aggregate", user |-> user, category |-> category,
                   collegeFault |-> collegeFault, queryFault |-> queryFault]
    /\ response' = AggregationGet(db, user, category, collegeFault, queryFault, nullsLow)
    /\ UNCHANGED db

\* GET of the list endpoint: get_queryset, evaluated by the store.
List(user, category, filter_value, search, sort_by, order, collegeFault) ==
    /\ request = NoRequest
    /\ request' = [op |-> "list", user |-> user, category |-> category,
                   filter_value |-> filter_value, search |-> search,
                   collegeFault |-> collegeFault]
    /\ LET r == get_queryset(db, user, category, filter_value, search,
                             sort_by, order, collegeFault)
       IN  IF r.raised
           THEN response' = r
           ELSE \E rows \in r.rows : response' = [raised |-> FALSE, rows |-> rows]
    /\ UNCHANGED db

NextArchive ==
    \/ /\ request = NoRequest
       /\ \E user \in EndpointActors, category \in UrlCategories,
             qf \in Faults, nullsLow \in BOOLEAN :
               \E cf \in CollegeFaults(user) :
                   Aggregate(user, category, cf, qf, nullsLow)
    \/ /\ request = NoRequest
       /\ \E user \in EndpointActors, category \in UrlCategories \cup {""},
             fv \in FilterValues, search \in SearchValues, sort_by \in SortByValues,
             order \in OrderValues :
               \E cf \in ListCollegeFaults(user) :
                   List(user, category, fv, search, sort_by, order, cf)
    \/ Finish

SpecArchive == InitArchive /\ [][NextArchive]_vars

\* The rows the role policy shows to the user of the request at hand.
Visible == Ids(get_role_based_archive_queryset(db, request.user, NoFault).qs)

\* The ids of a list response.
Listed == {response.rows[k] : k \in 1..Len(response.rows)}

\* The store failed while the resolver read the user's college.
CollegeReadFailed ==
    request.user.role \in CollegeRoles /\ request.collegeFault # NoFault

\* An aggregation request with a category outside field_map.
InvalidCategoryRequest ==
    request.op = "aggregate" /\ request.category \notin Categories

\* C6 as claimed: for every actor and every category outside the five of
\* field_map, the aggregation ends with a 400 response carrying an error and
\* no result, never with a 200 or a 500.
C6_InvalidCategoryIs400 ==
    InvalidCategoryRequest
        => /\ response.status = 400
           /\ "error" \in DOMAIN response
           /\ "body" \notin DOMAIN response

\* C6 as amended: for every actor and every category outside the five of
\* field_map, the aggregation ends with an error response and no result,
\* never with a 200; it is the 400 "Invalid category specified." unless the
\* store failed while the resolver read the actor's college, which happens
\* before the category is checked; that failure is answered 500 with the
\* fixed message when it is not a ValueError.
C6_InvalidCategoryIs400UnlessCollegeReadFails ==
    InvalidCategoryRequest
        => /\ response.status \in {400, 500}
           /\ "error" \in DOMAIN response
           /\ "body" \notin DOMAIN response
           /\ ~CollegeReadFailed
                 => response = [status |-> 400, error |-> "Invalid category specified."]
           /\ (CollegeReadFailed /\ request.collegeFault.cls # "ValueError")
                 => response = [status |-> 500,
                                error |-> "A server error occurred during aggregation."]

\* A GUEST asks for category "bogus" while the store would fail the grouped
\* query: the answer is the 400 of the category check.
C6_Witness ==
    /\ InvalidCategoryRequest
    /\ request.user.role = "GUEST"
    /\ request.queryFault # NoFault
    /\ response = [status |-> 400, error |-> "Invalid category specified."]

\* C7: for a valid category, every failure of the store while the
\* aggregation resolves visibility or runs the grouped query, whatever the
\* exception's class, is answered 500 with the fixed message, never 400 and
\* never with the exception's own text.
C7_StoreFailureIs500 ==
    (/\ request.op = "aggregate"
     /\ request.category \in Categories
     /\ (CollegeReadFailed \/ request.queryFault # NoFault))
        => response = [status |-> 500, error |-> ServerErrorText]

\* A list request for the agenda category with filter_value 'N/A' and no
\* search, answered with rows.
AgendaNAListed ==
    /\ request.op = "list"
    /\ request.category = "agenda"
    /\ request.filter_value = StrV(NA)
    /\ request.search = None
    /\ ~response.raised

\* C8: for every actor, the list for category agenda and filter_value 'N/A',
\* without search, holds exactly the projects visible to the actor that have
\* no agenda.
C8_AgendaNAListsProjectsWithoutAgenda ==
    AgendaNAListed => Listed = {i \in Visible : db[i].agenda = 0}

\* A DEAN of college 2 is listed a visible project without agenda, and not
\* the visible project whose agenda has a blank name.
C8_Witness ==
    /\ AgendaNAListed
    /\ request.user = [role |-> "DEAN", college |-> 2]
    /\ \E i \in Listed : db[i].agenda = 0 /\ db[i].status = "IN_PROGRESS"
    /\ \E j \in Visible : db[j].agenda = 2 /\ j \notin Listed

\* C9: for every actor and every category, filter_value, search, sort_by and
\* order, every project the list returns is visible to the actor, and is
\* returned once.
C9_ListWithinVisible ==
    (request.op = "list" /\ ~response.raised)
        => /\ Listed \subseteq Visible
           /\ \A a, b \in 1..Len(response.rows) :
                 a # b => response.rows[a] # response.rows[b]

\* A GUEST filters by an agenda name and searches: a row comes back, and a
\* row that matches the filter and the search but is not visible does not.
C9_Witness ==
    /\ request.op = "list"
    /\ ~response.raised
    /\ request.user.role = "GUEST"
    /\ request.category = "agenda"
    /\ request.filter_value = StrV(<<"H", "a">>)
    /\ request.search = StrV(<<"N">>)
    /\ Len(response.rows) = 1
    /\ \E i \in ProjectIds :
          /\ i \notin Visible
          /\ i \in CategoryFilter(db, "agenda", request.filter_value)
          /\ i \in SearchFilter(db, request.search)

\* The text of a label in the URL of the list endpoint.
LabelText(label) == IF label.t = "int" THEN ToStr(label.v) ELSE label.v

\* The rows the list endpoint returns for the category of the request at
\* hand and the label as filter_value, without search.
ListedFor(label) ==
    get_queryset(db, request.user, request.category, StrV(LabelText(label)),
                 None, "title", "asc", NoFault)

\* C10: for every actor, every valid category and every (label, count) of
\* the aggregation, the list for that category and label, without search,
\* returns exactly the count projects the aggregation counted under the
\* label, and no label occurs twice in one aggregation.
C10_ListMatchesAggregate ==
    (request.op = "aggregate" /\ response.status = 200)
        => /\ \A k \in 1..Len(response.body) :
                 LET entry == response.body[k]
                     listed == ListedFor(entry.label)
                 IN  /\ ~listed.raised
                     /\ \A rows \in listed.rows :
                           /\ Len(rows) = entry.count
                           /\ {rows[n] : n \in 1..Len(rows)} =
                                 {i \in Visible :
                                     FormatLabel(request.category,
                                                 GroupKey(db[i], request.category))
                                         = entry.label}
           /\ \A a, b \in 1..Len(response.body) :
                 a # b => response.body[a].label # response.body[b].label

====
